---- MODULE Spec2Model ----
(***************************************************************************)
(* Model of the opacity pruner (cpp_core/src/gaussian_pruner.cpp): the     *)
(* command line, the load of the input table, the selection loop, the      *)
(* per-property compaction and the write of the output table.              *)
(*                                                                         *)
(* A 32-bit float is modelled by its key: the IEEE-754 binary32 bit        *)
(* pattern read as a sign-magnitude integer (so that -0 and +0 share the   *)
(* key 0 and the order of the keys is the order of the floats), and every  *)
(* NaN by the one key NaN.  Record indices are 0-based as in the source;   *)
(* the sequences that hold them are 1-based.                               *)
(***************************************************************************)
EXTENDS Integers, Sequences, FiniteSets, TLC

\* ------------------------------------------------------------------ bounds

\* The largest record count of an input table.
MaxRecords == 3

\* ------------------------------------------------------------ float32 model

Pow2(n) == 2 ^ n

NaN == 255 * Pow2(23) + Pow2(22)

IsNaN(x) == x = NaN

\* operator> on floats: false as soon as one side is a NaN.
FloatGT(a, b) == ~IsNaN(a) /\ ~IsNaN(b) /\ a > b

\* The number of bits of n > 0.
RECURSIVE BitLen(_)
BitLen(n) == IF n = 0 THEN 0 ELSE 1 + BitLen(n \div 2)

\* n / 2^s rounded to the nearest integer, ties to even (s >= 0).
RoundShift(n, s) ==
    IF s = 0 THEN n
    ELSE LET q == n \div Pow2(s)
             r == n % Pow2(s)
             h == Pow2(s - 1)
         IN  IF r > h \/ (r = h /\ q % 2 = 1) THEN q + 1 ELSE q

\* a / b rounded to the nearest integer, ties to even (b > 0).
RoundDiv(a, b) ==
    LET q == a \div b
        r == a % b
    IN  IF 2 * r > b \/ (2 * r = b /\ q % 2 = 1) THEN q + 1 ELSE q

\* The key of the normal float mant * 2^(e - 23), 2^23 <= mant <= 2^24 (a
\* mantissa rounded up to 2^24 carries into the exponent, as the bits do).
Pack(mant, e) == (e + 127) * Pow2(23) + (mant - Pow2(23))

\* The float nearest to num / 2^k (num >= 0): round to nearest, ties to even.
RoundDyadic(num, k) ==
    IF num = 0 THEN 0
    ELSE LET L == BitLen(num)
         IN  IF L <= 24 THEN Pack(num * Pow2(24 - L), L - 1 - k)
             ELSE Pack(RoundShift(num, L - 24), L - 1 - k)

\* The mantissa and the exponent of a positive normal float.
Mant(x) == (x % Pow2(23)) + Pow2(23)

Expo(x) == (x \div Pow2(23)) - 127

\* (float)n for a size_t n below 2^24: exact.
SizeToFloat(n) == RoundDyadic(n, 0)

\* The largest e with 2^e <= a / b (0 < a <= b).
RECURSIVE FloorLog2Ratio(_, _)
FloorLog2Ratio(a, b) == IF a >= b THEN 0 ELSE FloorLog2Ratio(2 * a, b) - 1

\* (float)a / (float)b for the sizes a <= b: IEEE division is correctly
\* rounded, and 0.0f / 0.0f is a NaN.
FloatDivSizes(a, b) ==
    IF b = 0 THEN NaN
    ELSE IF a = 0 THEN 0
    ELSE LET e == FloorLog2Ratio(a, b)
         IN  Pack(RoundDiv(a * Pow2(23 - e), b), e)

\* 1.0f - q for a float q in [0, 1].
OneMinus(q) ==
    IF IsNaN(q) THEN NaN
    ELSE IF q = 0 THEN Pack(Pow2(23), 0)
    ELSE LET k == 23 - Expo(q)
         IN  RoundDyadic(Pow2(k) - Mant(q), k)

\* x * 100.0f for a float x in [0, 1].
TimesHundred(x) ==
    IF IsNaN(x) THEN NaN
    ELSE IF x = 0 THEN 0
    ELSE RoundDyadic(Mant(x) * 100, 23 - Expo(x))

\* ------------------------------------------------ sigmoid and the threshold

\* sigmoid(x) = 1.0f / (1.0f + std::exp(-x)) in binary32, on the opacity
\* logits of the model:
\*   -3.0f -> 0.0474258736f    0.0f -> 0.5f    3.0f -> 0.952574134f
\* and a NaN logit gives a NaN (every operation on a NaN is a NaN).
sigmoid(x) ==
    CASE x = -1077936128 -> 1027752354
      [] x = 0           -> 1056964608
      [] x = 1077936128  -> 1064557542
      [] x = NaN         -> NaN

\* The opacity logits an input column may hold: -3.0f, 0.0f, 3.0f and a NaN.
Logits == {-1077936128, 0, 1077936128, NaN}

\* 0.05f, the threshold of a run that names none.
DefaultThreshold == 1028443341

\* The characters a decimal float is made of.
DecimalChars == {"0", "1", "2", "3", "4", "5", "6", "7", "8", "9", "."}

\* The longest prefix of s that std::stof converts: "nan", or digits and dots.
RECURSIVE DecimalPrefix(_)
DecimalPrefix(s) ==
    IF s = <<>> \/ Head(s) \notin DecimalChars THEN <<>>
    ELSE <<Head(s)>> \o DecimalPrefix(Tail(s))

StofPrefix(s) ==
    IF Len(s) >= 3 /\ SubSeq(s, 1, 3) = <<"n", "a", "n">> THEN <<"n", "a", "n">>
    ELSE DecimalPrefix(s)

\* std::stof throws std::invalid_argument when no conversion can be performed.
StofThrows(s) == StofPrefix(s) = <<>>

\* std::stof(s): the float nearest to the decimal its prefix spells; what
\* follows the prefix is ignored.
\*   "0" -> 0.0f   "0.5" -> 0.5f   "0.96" -> 0.959999979f   "nan" -> NaN
stof(s) ==
    LET p == StofPrefix(s)
    IN  CASE p = <<"0">>                -> 0
          [] p = <<"0", ".", "5">>      -> 1056964608
          [] p = <<"0", ".", "9", "6">> -> 1064682127
          [] p = <<"n", "a", "n">>      -> NaN

\* The threshold arguments of the model: "0", "0.5", "0.96", "nan", and the
\* two that are no decimal float, "abc" and "0.5x".
ThresholdArgs ==
    { <<"0">>, <<"0", ".", "5">>, <<"0", ".", "9", "6">>, <<"n", "a", "n">>,
      <<"a", "b", "c">>, <<"0", ".", "5", "x">> }

\* ------------------------------------------------------------ input files

Range(s) == {s[k] : k \in 1..Len(s)}

Prop(n, t) == [name |-> n, type |-> t]

\* The property lists of the vertex element of an input file: two that the
\* pruner can process, one with a property that is no float after opacity,
\* one without opacity, one whose opacity is a double.
Schemas ==
    { <<Prop("x", "float"), Prop("opacity", "float"), Prop("scale_0", "float")>>,
      <<Prop("opacity", "float"), Prop("x", "float")>>,
      <<Prop("x", "float"), Prop("opacity", "float"), Prop("red", "uchar")>>,
      <<Prop("x", "float"), Prop("scale_0", "float")>>,
      <<Prop("x", "float"), Prop("opacity", "double")>> }

\* The value of property p (its place in the header) of record r in an input
\* file, for every property but opacity: distinct over the whole table.
Cell(p, r) == SizeToFloat(16 * p + r)

Row(schema, logits, r) ==
    [p \in 1..Len(schema) |->
        IF schema[p].name = "opacity" THEN logits[r + 1] ELSE Cell(p, r)]

\* A file: the header (element name, record count, typed property names in
\* order) and the body, one record after the other, each record's values in
\* the header's order.
PlyFile(element, schema, logits) ==
    [kind |-> "ply", element |-> element, count |-> Len(logits),
     props |-> schema,
     body |-> [r \in 1..Len(logits) |-> Row(schema, logits, r - 1)]]

NoFile == [kind |-> "absent", element |-> "", count |-> 0, props |-> <<>>, body |-> <<>>]

\* A file whose first line is not "ply".
GarbageFile == [kind |-> "garbage", element |-> "", count |-> 0, props |-> <<>>, body |-> <<>>]

LogitSeqs == UNION {[1..n -> Logits] : n \in 0..MaxRecords}

InputFiles ==
    {PlyFile("vertex", s, l) : s \in Schemas, l \in LogitSeqs}
    \cup {PlyFile("face", <<Prop("x", "float"), Prop("opacity", "float")>>, <<0>>),
          NoFile, GarbageFile}

Paths == {"in.ply", "out.ply"}

\* argv, the program's name first: argc is its length.
Argvs ==
    {<<"pruner">>, <<"pruner", "in.ply">>}
    \cup {<<"pruner", "in.ply", o>> : o \in Paths}
    \cup {<<"pruner", "in.ply", o, t>> : o \in Paths, t \in ThresholdArgs}
    \cup {<<"pruner", "in.ply", o, <<"0", ".", "5">>, "extra">> : o \in Paths}

\* ------------------------------------------- the tables (happly::PLYData)

\* A PLYData with one element: its name, its record count, its properties in
\* declaration order and one column per property.
EmptyPLY == [element |-> "", count |-> 0, props |-> <<>>, cols |-> <<>>]

\* PLYData(filename) throws unless the file opens and its header parses.
CanParse(file) == file.kind = "ply"

\* PLYData(filename): the whole file is read, the body's records are split
\* into one column per property.
ParsePLY(file) ==
    [element |-> file.element, count |-> file.count, props |-> file.props,
     cols |-> [p \in 1..Len(file.props) |->
                  [r \in 1..file.count |-> file.body[r][p]]]]

\* getElement(name) throws unless the table has an element of that name.
hasElement(ply, name) == ply.element = name

PropIndex(ply, name) == CHOOSE p \in 1..Len(ply.props) : ply.props[p].name = name

\* getProperty<float>(name) throws when the element has no property of that
\* name, and when the property's type is not float (no type widens to float).
hasFloatProperty(ply, name) ==
    \E p \in 1..Len(ply.props) : ply.props[p].name = name /\ ply.props[p].type = "float"

\* getProperty<float>(name): a copy of the column.
getProperty(ply, name) == ply.cols[PropIndex(ply, name)]

\* A mutant of getPropertyNames: the names in the reverse of declaration order.
getPropertyNamesReversed(ply) ==
    [p \in 1..Len(ply.props) |-> ply.props[Len(ply.props) + 1 - p].name]

\* getPropertyNames(): the names in declaration order.
getPropertyNames(ply) == [p \in 1..Len(ply.props) |-> ply.props[p].name]

\* addElement(name, count) on an empty PLYData.
addElement(ply, name, count) == [ply EXCEPT !.element = name, !.count = count]

\* addProperty<float>(name, data) throws unless data has one value per record.
canAddProperty(ply, data) == Len(data) = ply.count

\* addProperty<float>(name, data): a property of that name is replaced, the
\* new one goes last.
addProperty(ply, name, data) ==
    LET keep == SelectSeq([p \in 1..Len(ply.props) |-> p],
                          LAMBDA p : ply.props[p].name # name)
    IN  [ply EXCEPT
            !.props = [k \in 1..Len(keep) |-> ply.props[keep[k]]] \o <<Prop(name, "float")>>,
            !.cols = [k \in 1..Len(keep) |-> ply.cols[keep[k]]] \o <<data>>]

\* write(filename, Binary): the header, then the records one after the other,
\* each record's values in the header's order.
WritePLY(ply) ==
    [kind |-> "ply", element |-> ply.element, count |-> ply.count, props |-> ply.props,
     body |-> [r \in 1..ply.count |-> [p \in 1..Len(ply.props) |-> ply.cols[p][r]]]]

\* ------------------------------------------------------ the pruner's steps

\* A mutant of Keep: a record exactly at the threshold is kept.
KeepAtThreshold(opacity, t) ==
    LET s == sigmoid(opacity) IN ~IsNaN(s) /\ ~IsNaN(t) /\ s >= t

\* A mutant of Keep: the comparison the other way round.
KeepBelow(opacity, t) == FloatGT(t, sigmoid(opacity))

\* The test of the selection loop.
Keep(opacity, t) == FloatGT(sigmoid(opacity), t)

\* A mutant of PushBack: the index goes first.
PushFront(indices, index) == <<index>> \o indices

\* valid_indices.push_back(i)
PushBack(indices, index) == Append(indices, index)

\* The compression rate printed: (1.0f - (float)num_optimized / num_original) * 100.0f
CompressionRate(optimized, original) ==
    TimesHundred(OneMinus(FloatDivSizes(optimized, original)))

\* A mutant of Gather: the first n values, whatever the indices.
GatherPrefix(old_data, indices, n) == [j \in 1..n |-> old_data[j]]

\* new_data[i] = old_data[valid_indices[i]] for i in [0, num_optimized)
Gather(old_data, indices, n) == [j \in 1..n |-> old_data[indices[j] + 1]]

\* The exit status of a process ended by std::terminate (SIGABRT).
AbortStatus == 128 + 6

VARIABLES
    argv,             \* the command line
    fs,               \* the files, by path
    fs0,              \* the files as the run found them
    prev,             \* the run before this one: its input, threshold and selection
    pc,               \* the place in main
    exit_code,        \* the exit status, -1 while the run goes on
    error,            \* the call whose exception ended the run, or "none"
    input_path, output_path, threshold,
    plyIn, num_original, opacities, valid_indices, i,
    num_optimized, compression_rate, plyOut,
    prop_idx,         \* the place of the property loop in the names
    io,               \* the file operations performed, in order
    work              \* the per-record steps performed (selection tests, values gathered)

vars == <<argv, fs, fs0, prev, pc, exit_code, error, input_path, output_path, threshold,
          plyIn, num_original, opacities, valid_indices, i, num_optimized,
          compression_rate, plyOut, prop_idx, io, work>>

env == <<argv, fs0, prev>>

cli == <<input_path, output_path, threshold>>

loaded == <<plyIn, num_original, opacities>>

selection == <<valid_indices, i>>

output == <<num_optimized, compression_rate, plyOut, prop_idx>>

argc == Len(argv)

NoRun == [runs |-> 0, input |-> NoFile, threshold |-> 0, valid_indices |-> <<>>]

Init ==
    /\ argv \in Argvs
    /\ \E f \in InputFiles : fs = [p \in Paths |-> IF p = "in.ply" THEN f ELSE NoFile]
    /\ fs0 = fs
    /\ prev = NoRun
    /\ pc = "start"
    /\ exit_code = -1
    /\ error = "none"
    /\ input_path = ""
    /\ output_path = ""
    /\ threshold = 0
    /\ plyIn = EmptyPLY
    /\ num_original = 0
    /\ opacities = <<>>
    /\ valid_indices = <<>>
    /\ i = 0
    /\ num_optimized = 0
    /\ compression_rate = 0
    /\ plyOut = EmptyPLY
    /\ prop_idx = 0
    /\ io = <<>>
    /\ work = 0

\* An exception that nothing catches: std::terminate ends the process.
Throw(from) ==
    /\ pc' = "abort"
    /\ exit_code' = AbortStatus
    /\ error' = from

\* argc < 3: the usage message, return 1.
Usage ==
    /\ pc = "start"
    /\ argc < 3
    /\ pc' = "exit"
    /\ exit_code' = 1
    /\ UNCHANGED <<env, fs, error, cli, loaded, selection, output, io, work>>

\* argv[1], argv[2] and the threshold: std::stof(argv[3]) when argc > 3.
ParseArgs ==
    /\ pc = "start"
    /\ argc >= 3
    /\ ~(argc > 3 /\ StofThrows(argv[4]))
    /\ input_path' = argv[2]
    /\ output_path' = argv[3]
    /\ threshold' = IF argc > 3 THEN stof(argv[4]) ELSE DefaultThreshold
    /\ pc' = "load"
    /\ UNCHANGED <<env, fs, exit_code, error, loaded, selection, output, io, work>>

\* std::stof throws on a threshold it cannot convert.
ParseArgsThrow ==
    /\ pc = "start"
    /\ argc > 3
    /\ StofThrows(argv[4])
    /\ Throw("stof")
    /\ UNCHANGED <<env, fs, cli, loaded, selection, output, io, work>>

\* A mutant of Load: the output file is opened for writing, and so emptied,
\* before the input is read.
LoadAfterOpeningOutput ==
    /\ pc = "load"
    /\ io' = io \o <<[op |-> "write", path |-> output_path],
                     [op |-> "read", path |-> input_path]>>
    /\ fs' = [fs EXCEPT ![output_path] = GarbageFile]
    /\ IF CanParse(fs'[input_path])
       THEN /\ plyIn' = ParsePLY(fs'[input_path])
            /\ pc' = "element"
            /\ UNCHANGED <<exit_code, error>>
       ELSE /\ Throw("PLYData")
            /\ UNCHANGED plyIn
    /\ UNCHANGED <<env, cli, num_original, opacities, selection, output, work>>

\* happly::PLYData plyIn(input_path)
Load ==
    /\ pc = "load"
    /\ io' = Append(io, [op |-> "read", path |-> input_path])
    /\ IF CanParse(fs[input_path])
       THEN /\ plyIn' = ParsePLY(fs[input_path])
            /\ pc' = "element"
            /\ UNCHANGED <<exit_code, error>>
       ELSE /\ Throw("PLYData")
            /\ UNCHANGED plyIn
    /\ UNCHANGED <<env, fs, cli, num_original, opacities, selection, output, work>>

\* plyIn.getElement("vertex") and its count
GetElement ==
    /\ pc = "element"
    /\ IF hasElement(plyIn, "vertex")
       THEN /\ num_original' = plyIn.count
            /\ pc' = "opacity"
            /\ UNCHANGED <<exit_code, error>>
       ELSE /\ Throw("getElement")
            /\ UNCHANGED num_original
    /\ UNCHANGED <<env, fs, cli, plyIn, opacities, selection, output, io, work>>

\* vElement.getProperty<float>("opacity"), the empty valid_indices, i = 0
GetOpacity ==
    /\ pc = "opacity"
    /\ IF hasFloatProperty(plyIn, "opacity")
       THEN /\ opacities' = getProperty(plyIn, "opacity")
            /\ valid_indices' = <<>>
            /\ i' = 0
            /\ pc' = "select"
            /\ UNCHANGED <<exit_code, error>>
       ELSE /\ Throw("getProperty")
            /\ UNCHANGED <<opacities, selection>>
    /\ UNCHANGED <<env, fs, cli, plyIn, num_original, output, io, work>>

\* One turn of the selection loop.
SelectStep ==
    /\ pc = "select"
    /\ i < num_original
    /\ valid_indices' = IF Keep(opacities[i + 1], threshold)
                        THEN PushBack(valid_indices, i)
                        ELSE valid_indices
    /\ i' = i + 1
    /\ work' = work + 1
    /\ UNCHANGED <<env, fs, pc, exit_code, error, cli, loaded, output, io>>

\* A mutant of Report: the output file is created, with the header of the
\* table as it is then, when the output table is.
ReportCreatingOutput ==
    /\ pc = "select"
    /\ ~(i < num_original)
    /\ num_optimized' = Len(valid_indices)
    /\ compression_rate' = CompressionRate(num_optimized', num_original)
    /\ plyOut' = addElement(EmptyPLY, "vertex", num_optimized')
    /\ prop_idx' = 1
    /\ pc' = "copy"
    /\ fs' = [fs EXCEPT ![output_path] = WritePLY(plyOut')]
    /\ UNCHANGED <<env, exit_code, error, cli, loaded, selection, io, work>>

\* After the loop: the counts, the compression rate, the empty output table.
Report ==
    /\ pc = "select"
    /\ ~(i < num_original)
    /\ num_optimized' = Len(valid_indices)
    /\ compression_rate' = CompressionRate(num_optimized', num_original)
    /\ plyOut' = addElement(EmptyPLY, "vertex", num_optimized')
    /\ prop_idx' = 1
    /\ pc' = "copy"
    /\ UNCHANGED <<env, fs, exit_code, error, cli, loaded, selection, io, work>>

\* One turn of the property loop: the column is read as floats, gathered and added.
CopyProperty ==
    /\ pc = "copy"
    /\ prop_idx <= Len(getPropertyNames(plyIn))
    /\ LET prop_name == getPropertyNames(plyIn)[prop_idx]
       IN  IF hasFloatProperty(plyIn, prop_name)
           THEN LET old_data == getProperty(plyIn, prop_name)
                    new_data == Gather(old_data, valid_indices, num_optimized)
                IN  IF canAddProperty(plyOut, new_data)
                    THEN /\ plyOut' = addProperty(plyOut, prop_name, new_data)
                         /\ prop_idx' = prop_idx + 1
                         /\ work' = work + num_optimized
                         /\ UNCHANGED <<pc, exit_code, error>>
                    ELSE /\ Throw("addProperty")
                         /\ work' = work + num_optimized
                         /\ UNCHANGED <<plyOut, prop_idx>>
           ELSE /\ Throw("getProperty")
                /\ UNCHANGED <<plyOut, prop_idx, work>>
    /\ UNCHANGED <<env, fs, cli, loaded, selection, num_optimized, compression_rate, io>>

\* plyOut.write(output_path, Binary), then return 0.
Write ==
    /\ pc = "copy"
    /\ ~(prop_idx <= Len(getPropertyNames(plyIn)))
    /\ io' = Append(io, [op |-> "write", path |-> output_path])
    /\ fs' = [fs EXCEPT ![output_path] = WritePLY(plyOut)]
    /\ pc' = "exit"
    /\ exit_code' = 0
    /\ UNCHANGED <<env, error, cli, loaded, selection, output, work>>

\* plyOut.write throws when the output file cannot be opened.
WriteThrow ==
    /\ pc = "copy"
    /\ ~(prop_idx <= Len(getPropertyNames(plyIn)))
    /\ io' = Append(io, [op |-> "write", path |-> output_path])
    /\ Throw("write")
    /\ UNCHANGED <<env, fs, cli, loaded, selection, output, work>>

Next ==
    \/ Usage
    \/ ParseArgs
    \/ ParseArgsThrow
    \/ Load
    \/ GetElement
    \/ GetOpacity
    \/ SelectStep
    \/ Report
    \/ CopyProperty
    \/ Write
    \/ WriteThrow

Spec == Init /\ [][Next]_vars

\* The program is run a second time, on the files the first run left, with
\* another threshold argument.
Rerun ==
    /\ pc = "exit"
    /\ exit_code = 0
    /\ prev.runs = 0
    /\ \E t \in ThresholdArgs : argv' = <<argv[1], argv[2], argv[3], t>>
    /\ prev' = [runs |-> 1, input |-> fs0[input_path], threshold |-> threshold,
                valid_indices |-> valid_indices]
    /\ fs0' = fs
    /\ pc' = "start"
    /\ exit_code' = -1
    /\ input_path' = ""
    /\ output_path' = ""
    /\ threshold' = 0
    /\ plyIn' = EmptyPLY
    /\ num_original' = 0
    /\ opacities' = <<>>
    /\ valid_indices' = <<>>
    /\ i' = 0
    /\ num_optimized' = 0
    /\ compression_rate' = 0
    /\ plyOut' = EmptyPLY
    /\ prop_idx' = 0
    /\ io' = <<>>
    /\ work' = 0
    /\ UNCHANGED <<fs, error>>

NextRerun == Next \/ Rerun

SpecRerun == Init /\ [][NextRerun]_vars

\* -------------------------------------------------------- the properties

\* The run returned 0: the output file was written.
Succeeded == pc = "exit" /\ exit_code = 0

\* The selection loop is over.
LoopOver == (pc = "select" /\ ~(i < num_original)) \/ prop_idx >= 1

InFile == fs0[input_path]

OutFile == fs[output_path]

Names(file) == [p \in 1..Len(file.props) |-> file.props[p].name]

\* The place of the opacity property in a file's header.
OpacityAt(file) == CHOOSE p \in 1..Len(file.props) : file.props[p].name = "opacity"

\* The opacity logit of record k of the input file.
InOpacity(k) == InFile.body[k + 1][OpacityAt(InFile)]

\* C1 (schema preservation): after a run that wrote its output, the output
\* file's property names are the input vertex element's property names: the
\* same names in the same order, none added, dropped or repeated, whatever
\* the threshold and the number of records retained.
SchemaPreserved ==
    Succeeded =>
        /\ Names(OutFile) = Names(InFile)
        /\ OutFile.element = "vertex"
        /\ \A p \in 1..Len(OutFile.props) : OutFile.props[p].type = "float"

\* A run that retained none of at least two records of a three-property table.
SchemaPreservedWitness ==
    /\ Succeeded
    /\ num_optimized = 0
    /\ num_original >= 2
    /\ Len(InFile.props) = 3
    /\ Names(OutFile) = <<"x", "opacity", "scale_0">>

\* C2 (selection rule): at every turn of the selection loop the mask holds
\* exactly the indices below i whose sigmoid is strictly greater than the
\* threshold, so that after the loop an index of [0, record_count) is in the
\* mask iff its record's probability is strictly greater than the threshold;
\* a record whose probability equals the threshold is not in the mask.
SelectionRule ==
    (pc = "select" \/ LoopOver) =>
        /\ \A k \in 0..(i - 1) :
              /\ k \in Range(valid_indices) <=> FloatGT(sigmoid(InOpacity(k)), threshold)
              /\ sigmoid(InOpacity(k)) = threshold => k \notin Range(valid_indices)
        /\ \A k \in Range(valid_indices) : k < i
        /\ LoopOver => i = InFile.count

\* The loop is over, a record exactly at the threshold was dropped and
\* another record was kept.
SelectionRuleWitness ==
    /\ LoopOver
    /\ \E k \in 0..(num_original - 1) :
          sigmoid(InOpacity(k)) = threshold /\ k \notin Range(valid_indices)
    /\ valid_indices # <<>>

\* The input record an output row was copied from, read off the row's first
\* property that is not opacity (its values are distinct over the input).
TagAt(file) == CHOOSE p \in 1..Len(file.props) : file.props[p].name # "opacity"

SourceRecord(row) ==
    CHOOSE r \in 0..(InFile.count - 1) : InFile.body[r + 1][TagAt(InFile)] = row[TagAt(InFile)]

\* C3 (order preservation): at every step the mask is strictly ascending,
\* its indices in [0, record_count) and distinct; and the rows of the output
\* file come from input records in ascending order.
OrderPreserved ==
    /\ \A j, k \in 1..Len(valid_indices) : j < k => valid_indices[j] < valid_indices[k]
    /\ \A j \in 1..Len(valid_indices) :
          valid_indices[j] >= 0 /\ valid_indices[j] < num_original
    /\ Succeeded =>
          \A j, k \in 1..Len(OutFile.body) :
              j < k => SourceRecord(OutFile.body[j]) < SourceRecord(OutFile.body[k])

\* An output of two records or more with the first input record dropped.
OrderPreservedWitness ==
    /\ Succeeded
    /\ Len(OutFile.body) >= 2
    /\ valid_indices[1] > 0

\* C4 (compaction): every column of the output table has one value per
\* record while the table is built; the file written has len(mask) records,
\* one value per property in each, and the value of property p in record j
\* is the input's value of p in record mask[j].
Compaction ==
    /\ \A p \in 1..Len(plyOut.cols) : Len(plyOut.cols[p]) = plyOut.count
    /\ Succeeded =>
          /\ OutFile.count = Len(valid_indices)
          /\ Len(OutFile.body) = OutFile.count
          /\ \A j \in 1..Len(OutFile.body) :
                /\ Len(OutFile.body[j]) = Len(InFile.props)
                /\ \A p \in 1..Len(InFile.props) :
                      OutFile.body[j][p] = InFile.body[valid_indices[j] + 1][p]

\* An output of fewer records than the input, whose first record is not the
\* input's first.
CompactionWitness ==
    /\ Succeeded
    /\ num_optimized >= 1
    /\ valid_indices[1] > 0
    /\ num_optimized < num_original
    /\ Len(InFile.props) >= 2

\* A file whose body holds what its header declares, with the input's names.
Complete(file) ==
    /\ file.kind = "ply"
    /\ file.element = "vertex"
    /\ Len(file.body) = file.count
    /\ \A r \in 1..Len(file.body) : Len(file.body[r]) = Len(file.props)
    /\ Names(file) = Names(InFile)

WriteAttempted == \E k \in 1..Len(io) : io[k].op = "write"

\* C5 (all-or-nothing output): a file differs from what the run found only
\* if it is the output file of a run that returned 0, and then it is
\* complete; a run ended by a failure of the load, the selection or the
\* compaction never attempted the write, and a run ended by any failure left
\* every file as it was.
AllOrNothing ==
    /\ \A p \in Paths :
          fs[p] # fs0[p] => (p = output_path /\ Succeeded /\ Complete(fs[p]))
    /\ Succeeded => Complete(OutFile)
    /\ (pc = "abort" /\ error # "write") => ~WriteAttempted
    /\ pc = "abort" => fs = fs0

\* A run ended in the compaction, after it gathered a column of two values.
AllOrNothingWitness ==
    /\ pc = "abort"
    /\ error = "getProperty"
    /\ prop_idx >= 2
    /\ num_optimized >= 2
    /\ fs[output_path] = NoFile

\* The argument count the usage names: two paths and at most a threshold.
ArgCountOk == argc \in {3, 4}

\* A wrong argument count, or a threshold argument that std::stof cannot
\* convert.
BadUsage == ~ArgCountOk \/ (argc >= 4 /\ StofThrows(argv[4]))

Ended == pc \in {"exit", "abort"}

\* C6 (usage errors): a run with a wrong argument count or an unparsable
\* threshold argument performs no file operation and ends with a non-zero
\* exit status; with fewer than the two required arguments the status is 1;
\* a run that wrote its output ends with 0.
UsageErrors ==
    /\ BadUsage => (io = <<>> /\ fs = fs0 /\ (Ended => exit_code # 0))
    /\ (Ended /\ argc < 3) => exit_code = 1
    /\ (pc = "exit" /\ WriteAttempted) => exit_code = 0

\* The float rate is 100 * removed / original within four units in its last place.
RateIs(rate, removed, original) ==
    IF IsNaN(rate) THEN FALSE
    ELSE IF removed = 0 THEN rate = 0
    ELSE rate > 0 /\
         LET k == 23 - Expo(rate)
             d == Mant(rate) * original - 100 * removed * Pow2(k)
         IN  d <= 4 * original /\ -d <= 4 * original

\* The counts and the rate have been reported.
Reported == prop_idx >= 1

\* C7 (count and compression rate): the retained count is at most the
\* original count; the rate reported is (1 - retained/original) as a
\* percentage when the table is not empty, and 0 when it is empty, in which
\* case the run goes on to write an output of 0 records.
CountAndRate ==
    Reported =>
        /\ num_optimized <= num_original
        /\ num_original > 0 =>
              RateIs(compression_rate, num_original - num_optimized, num_original)
        /\ num_original = 0 => compression_rate = 0
        /\ (num_original = 0 /\ Succeeded) => OutFile.count = 0

\* What C7 says of a table that is not empty, which the code does.
CountAndRateNonEmpty ==
    Reported =>
        /\ num_optimized <= num_original
        /\ num_original > 0 =>
              RateIs(compression_rate, num_original - num_optimized, num_original)
        /\ (num_original = 0 /\ Succeeded) => OutFile.count = 0

\* operator<= on floats: false as soon as one side is a NaN.
FloatLE(a, b) == ~IsNaN(a) /\ ~IsNaN(b) /\ a <= b

\* C8 (threshold monotonicity): of two runs on the same input table, the
\* one with the greater or equal threshold retains a subset of the indices
\* the other retains, and so no more records.
ThresholdMonotone ==
    (prev.runs = 1 /\ LoopOver /\ InFile = prev.input) =>
        /\ FloatLE(prev.threshold, threshold) =>
              /\ Range(valid_indices) \subseteq Range(prev.valid_indices)
              /\ Len(valid_indices) <= Len(prev.valid_indices)
        /\ FloatLE(threshold, prev.threshold) =>
              /\ Range(prev.valid_indices) \subseteq Range(valid_indices)
              /\ Len(prev.valid_indices) <= Len(valid_indices)

\* A second run on the same table with a greater threshold, which retains
\* some of the records the first retained and not all of them.
ThresholdMonotoneWitness ==
    /\ prev.runs = 1
    /\ LoopOver
    /\ InFile = prev.input
    /\ FloatGT(threshold, prev.threshold)
    /\ valid_indices # <<>>
    /\ Len(valid_indices) < Len(prev.valid_indices)

\* The run was ended by a schema or presence check: the vertex element, the
\* opacity property, a property read as a float column.
CheckFailed == pc = "abort" /\ error \in {"getElement", "getProperty"}

\* C9 (early, fatal detection): a run that a schema or presence check ends
\* has performed no per-record step, neither a selection test nor a gather.
EarlyDetection == CheckFailed => work = 0

\* The expected output for an input file and a threshold: the header with
\* the new count, and the records that pass the test, in their order.
ExpectedOutput(file, t) ==
    LET o == OpacityAt(file)
        kept == SelectSeq(file.body, LAMBDA row : FloatGT(sigmoid(row[o]), t))
    IN  [kind |-> "ply", element |-> "vertex", count |-> Len(kept),
         props |-> file.props, body |-> kept]

\* C10 (read before write, input untouched): the table in memory is the
\* whole input file from the load on; the one write comes last, after the
\* read, the selection and the gather of every column; until it, no file
\* has changed; and the file written is a function of the input file's
\* content and the threshold alone, whether or not the output path is the
\* input path.
ReadBeforeWrite ==
    /\ plyIn # EmptyPLY => plyIn = ParsePLY(InFile)
    /\ \A k \in 1..Len(io) :
          io[k].op = "write" =>
              /\ k = Len(io)
              /\ k = 2
              /\ io[1] = [op |-> "read", path |-> input_path]
              /\ i = num_original
              /\ prop_idx = Len(plyIn.props) + 1
              /\ Len(plyOut.cols) = Len(plyIn.props)
    /\ ~Succeeded => fs = fs0
    /\ Succeeded =>
          /\ OutFile = ExpectedOutput(InFile, threshold)
          /\ \A p \in Paths \ {output_path} : fs[p] = fs0[p]

\* A run that wrote over its own input and dropped some of its records.
ReadBeforeWriteWitness ==
    /\ Succeeded
    /\ output_path = input_path
    /\ num_optimized >= 1
    /\ num_optimized < num_original
    /\ OutFile # InFile

====
